---- MODULE Spec2Model ----
(***************************************************************************)
(* coingecko-price-server: the split POST/SSE server (src/src/index.ts)    *)
(* and the WebSocket JSON-RPC server (src/unnamed/part_000), modelled as   *)
(* state machines over JavaScript values, together with the price client   *)
(* getCoinGeckoPrice both servers call.                                    *)
(*                                                                         *)
(* A run is one of three programs, fixed by `variant` in Init:             *)
(*   "split"   index.ts  : GET /sse, POST /messages, 'close', SIGINT       *)
(*   "ws"      part_000  : connection, 'message', 'close', SIGINT          *)
(*   "direct"  getCoinGeckoPrice called on its own                         *)
(* A handler runs to completion between I/O events; the only suspension    *)
(* an I/O event can interleave with is the upstream HTTP call, so each     *)
(* handler is one action up to axios.get and one action after it.          *)
(*                                                                         *)
(* A run draws its inputs in one of two ways, fixed by `inputs` in Init:   *)
(*   "wide"  every request shape and every upstream outcome, with one      *)
(*           stream or socket and one handler suspended at a time;         *)
(*   "core"  one request of each kind, with up to MaxStreams streams,      *)
(*           MaxSockets sockets and MaxInflight suspended handlers.        *)
(***************************************************************************)
EXTENDS Integers, Sequences, FiniteSets, Bags, TLC

VARIABLES
    variant,            \* which program runs
    inputs,             \* which inputs the run draws from: "wide" or "core"
    activeSseResponse,  \* index.ts:92, NoStream or a stream
    activeSseClientId,  \* index.ts:93
    nOpened,            \* split: number of GET /sse served so far (streams are 1..nOpened)
    writableEnded,      \* split: streams on which end() was called
    closeFired,         \* split: streams whose req 'close' event has fired
    readyState,         \* ws: per socket "CONNECTING" (not yet accepted), "OPEN", "CLOSED"
    inflight,           \* handlers suspended on the upstream call
    shuttingDown,       \* SIGINT received
    last                \* what the most recent handler run did

vars == <<variant, inputs, activeSseResponse, activeSseClientId, nOpened, writableEnded,
          closeFired, readyState, inflight, shuttingDown, last>>

----------------------------------------------------------------------------
(* Bounds *)
MaxStreams == 2
MaxSockets == 1
MaxInflight == 2

----------------------------------------------------------------------------
(* JavaScript values.  A value is a record tagged by `t`; a primitive      *)
(* carries `v`, an object carries its properties as further fields.        *)
Undefined == [t |-> "undefined"]
Null == [t |-> "null"]
Num(n) == [t |-> "number", v |-> n]
Str(s) == [t |-> "string", v |-> s]
EmptyArray == [t |-> "array"]

\* typeof x
TypeOf(x) == IF x.t \in {"null", "object", "array"} THEN "object" ELSE x.t

\* !!x
Truthy(x) ==
    CASE x.t \in {"undefined", "null"} -> FALSE
      [] x.t = "number" -> x.v # 0
      [] x.t = "string" -> x.v # ""
      [] OTHER -> TRUE

\* x[k] for a value x that is neither null nor undefined
Get(x, k) == IF x.t = "object" /\ k \in DOMAIN x \ {"t"} THEN x[k] ELSE Undefined

\* `${x}` for the values the templates are applied to
Template(x) ==
    CASE x.t = "string" -> x.v
      [] x.t = "number" -> ToString(x.v)
      [] x.t = "object" -> "[object Object]"
      [] x.t = "array" -> ""
      [] OTHER -> x.t

\* a || b
OrElse(a, b) == IF Truthy(a) THEN a ELSE b

ParseError == -32700
InvalidRequest == -32600
MethodNotFound == -32601
InvalidParams == -32602
InternalError == -32603

NoStream == 0

ToolName == "get_coingecko_price"

----------------------------------------------------------------------------
(* The upstream price service: what `await axiosInstance.get(...)` can     *)
(* produce.                                                                *)
Bodies ==
    { Str(""),
      [t |-> "object"],
      [t |-> "object", bitcoin |-> [t |-> "object"]],
      [t |-> "object", bitcoin |-> [t |-> "object", usd |-> Num(0)]],
      [t |-> "object", bitcoin |-> [t |-> "object", usd |-> Num(65000)]],
      [t |-> "object", ethereum |-> [t |-> "object", usd |-> Num(3000)]] }

Outcomes ==
    [kind : {"response"}, data : Bodies, message : {Undefined}]
    \cup [kind : {"AxiosError"}, data : {Undefined, Str("rate limited")},
          message : {Str("Request failed with status code 429")}]
    \cup [kind : {"Error"}, data : {Undefined}, message : {Str("socket hang up")}]
    \cup [kind : {"thrown"}, data : {Undefined}, message : {Undefined}]

\* isValidPriceArgs without the test of token_id
isValidPriceArgsLoose(args) == TypeOf(args) = "object" /\ args # Null

\* const isValidPriceArgs = (args) => typeof args === 'object' && args !== null
\*                                    && typeof args.token_id === 'string'
isValidPriceArgs(args) ==
    /\ TypeOf(args) = "object"
    /\ args # Null
    /\ TypeOf(Get(args, "token_id")) = "string"

\* getCoinGeckoPrice, lines 45-47: the guard that returns before any call
getCoinGeckoPriceRejects(tokenId) == ~Truthy(tokenId) \/ TypeOf(tokenId) # "string"

InvalidTokenResult == [price |-> Undefined, error |-> Str("Invalid or missing token_id parameter.")]

\* line 58: response.data && response.data[tokenId] && response.data[tokenId].usd
HasPrice(data, tokenId) ==
    /\ Truthy(data)
    /\ Truthy(Get(data, tokenId.v))
    /\ Truthy(Get(Get(data, tokenId.v), "usd"))

\* getCoinGeckoPrice, lines 58-71: the rest of the function once the call settles
getCoinGeckoPriceSettle(tokenId, outcome) ==
    CASE outcome.kind = "response" ->
            IF HasPrice(outcome.data, tokenId)
            THEN [price |-> Get(Get(outcome.data, tokenId.v), "usd"), error |-> Undefined]
            ELSE [price |-> Undefined,
                  error |-> Str("Could not find price data for token ID: " \o Template(tokenId))]
      [] outcome.kind = "AxiosError" ->
            [price |-> Undefined,
             error |-> Str("CoinGecko API error: "
                           \o Template(OrElse(outcome.data, outcome.message)))]
      [] outcome.kind = "Error" ->
            [price |-> Undefined, error |-> outcome.message]
      [] OTHER ->
            [price |-> Undefined,
             error |-> Str("An unknown error occurred while fetching the price.")]

\* getCoinGeckoPrice as a whole: the result, given what the upstream would answer
getCoinGeckoPrice(tokenId, outcome) ==
    IF getCoinGeckoPriceRejects(tokenId)
    THEN InvalidTokenResult
    ELSE getCoinGeckoPriceSettle(tokenId, outcome)

----------------------------------------------------------------------------
(* JSON-RPC envelopes *)
ToolsResult == [tools |-> <<ToolName>>]

ResultResponse(id, result) ==
    [jsonrpc |-> Str("2.0"), id |-> id, result |-> result, error |-> Undefined]

ErrorResponse(id, code, message) ==
    [jsonrpc |-> Str("2.0"), id |-> id, result |-> Undefined,
     error |-> [code |-> code, message |-> message]]

\* a thrown { code, message } literal
Thrown(code, message) == [code |-> Num(code), message |-> Str(message)]

\* a thrown native Error (TypeError, SyntaxError): a message and no numeric code
NativeError(message) == [code |-> Undefined, message |-> Str(message)]

\* typeof error.code === 'number' ? error.code : McpErrorCode.InternalError
CaughtCode(error) == IF TypeOf(error.code) = "number" THEN error.code.v ELSE InternalError

\* typeof error.message === 'string' ? error.message : 'Internal Server Error'
CaughtMessage(error) ==
    IF TypeOf(error.message) = "string" THEN error.message.v ELSE "Internal Server Error"

\* JSON.stringify of an envelope: properties whose value is undefined are left out
JSONstringify(obj) == [k \in {f \in DOMAIN obj : obj[f] # Undefined} |-> obj[k]]

PriceText(tokenId, price) ==
    [text |-> "The current price of " \o Template(tokenId) \o " is $"
              \o Template(price) \o " USD."]

NoOutcome == [kind |-> "none", data |-> Undefined, message |-> Undefined]
NoResult == [price |-> Undefined, error |-> Undefined]

----------------------------------------------------------------------------
(* handleMcpRequestViaPost (index.ts).  The body of the try block is a     *)
(* routing decision: a value to return, an error to throw, or the call of  *)
(* getCoinGeckoPrice on a token id.                                        *)
ViaPostRoute(request) ==
    LET method == Get(request, "method")
        params == Get(request, "params")
    IN  IF method = Str("listTools")
        THEN [to |-> "return", result |-> ToolsResult]
        ELSE IF method = Str("callTool")
        THEN IF ~Truthy(params) \/ TypeOf(params) # "object"
                 \/ TypeOf(Get(params, "name")) # "string"
             THEN [to |-> "throw",
                   error |-> Thrown(InvalidParams, "Invalid params for callTool")]
             ELSE IF Get(params, "name") = Str(ToolName)
             THEN IF ~isValidPriceArgs(Get(params, "arguments"))
                  THEN [to |-> "throw",
                        error |-> Thrown(InvalidParams,
                            "Invalid arguments for get_coingecko_price: requires a \"token_id\" string.")]
                  ELSE [to |-> "price",
                        tokenId |-> Get(Get(params, "arguments"), "token_id")]
             ELSE [to |-> "throw",
                   error |-> Thrown(MethodNotFound,
                                    "Unknown tool: " \o Template(Get(params, "name")))]
        ELSE [to |-> "throw",
              error |-> Thrown(MethodNotFound, "Unsupported method: " \o Template(method))]

\* whether the handler gets as far as axiosInstance.get
ViaPostCallsUpstream(request) ==
    /\ ViaPostRoute(request).to = "price"
    /\ ~getCoinGeckoPriceRejects(ViaPostRoute(request).tokenId)

\* the price result the handler obtains (NoResult when it never asks for one)
ViaPostPriceResult(request, outcome) ==
    IF ViaPostRoute(request).to = "price"
    THEN getCoinGeckoPrice(ViaPostRoute(request).tokenId, outcome)
    ELSE NoResult

\* handleMcpRequestViaPost answering under the module-level client id
handleMcpRequestViaPostSharedId(request, outcome) ==
    LET id == activeSseClientId
        route == ViaPostRoute(request)
        result == ViaPostPriceResult(request, outcome)
        caught(error) == ErrorResponse(id, CaughtCode(error), CaughtMessage(error))
    IN  CASE route.to = "return" -> ResultResponse(id, route.result)
          [] route.to = "throw" -> caught(route.error)
          [] route.to = "price" ->
                IF result.price # Undefined
                THEN ResultResponse(id, PriceText(route.tokenId, result.price))
                ELSE caught([code |-> Num(InternalError),
                             message |-> OrElse(result.error, Str("Failed to get price."))])

\* handleMcpRequestViaPost: the envelope it resolves to
handleMcpRequestViaPost(request, outcome) ==
    LET id == Get(request, "id")
        route == ViaPostRoute(request)
        result == ViaPostPriceResult(request, outcome)
        caught(error) == ErrorResponse(id, CaughtCode(error), CaughtMessage(error))
    IN  CASE route.to = "return" -> ResultResponse(id, route.result)
          [] route.to = "throw" -> caught(route.error)
          [] route.to = "price" ->
                IF result.price # Undefined
                THEN ResultResponse(id, PriceText(route.tokenId, result.price))
                ELSE caught([code |-> Num(InternalError),
                             message |-> OrElse(result.error, Str("Failed to get price."))])

----------------------------------------------------------------------------
(* handleMcpRequest (part_000): the WebSocket server's copy of the handler *)

\* the routing with the tool-name test dropped: every named tool is the price tool
WsRouteAnyTool(request) ==
    LET method == Get(request, "method")
        params == Get(request, "params")
    IN  IF method = Str("listTools")
        THEN [to |-> "return", result |-> ToolsResult]
        ELSE IF method = Str("callTool")
        THEN IF ~Truthy(params) \/ TypeOf(params) # "object"
                 \/ TypeOf(Get(params, "name")) # "string"
             THEN [to |-> "throw",
                   error |-> Thrown(InvalidParams, "Invalid params for callTool")]
             ELSE IF ~isValidPriceArgs(Get(params, "arguments"))
                  THEN [to |-> "throw",
                        error |-> Thrown(InvalidParams,
                            "Invalid arguments for get_coingecko_price: requires a \"token_id\" string.")]
                  ELSE [to |-> "price",
                        tokenId |-> Get(Get(params, "arguments"), "token_id")]
        ELSE [to |-> "throw",
              error |-> Thrown(MethodNotFound, "Unsupported method: " \o Template(method))]

WsRoute(request) ==
    LET method == Get(request, "method")
        params == Get(request, "params")
    IN  IF method = Str("listTools")
        THEN [to |-> "return", result |-> ToolsResult]
        ELSE IF method = Str("callTool")
        THEN IF ~Truthy(params) \/ TypeOf(params) # "object"
                 \/ TypeOf(Get(params, "name")) # "string"
             THEN [to |-> "throw",
                   error |-> Thrown(InvalidParams, "Invalid params for callTool")]
             ELSE IF Get(params, "name") = Str(ToolName)
             THEN IF ~isValidPriceArgs(Get(params, "arguments"))
                  THEN [to |-> "throw",
                        error |-> Thrown(InvalidParams,
                            "Invalid arguments for get_coingecko_price: requires a \"token_id\" string.")]
                  ELSE [to |-> "price",
                        tokenId |-> Get(Get(params, "arguments"), "token_id")]
             ELSE [to |-> "throw",
                   error |-> Thrown(MethodNotFound,
                                    "Unknown tool: " \o Template(Get(params, "name")))]
        ELSE [to |-> "throw",
              error |-> Thrown(MethodNotFound, "Unsupported method: " \o Template(method))]

WsCallsUpstream(request) ==
    /\ WsRoute(request).to = "price"
    /\ ~getCoinGeckoPriceRejects(WsRoute(request).tokenId)

WsPriceResult(request, outcome) ==
    IF WsRoute(request).to = "price"
    THEN getCoinGeckoPrice(WsRoute(request).tokenId, outcome)
    ELSE NoResult

handleMcpRequest(request, outcome) ==
    LET id == Get(request, "id")
        route == WsRoute(request)
        result == WsPriceResult(request, outcome)
        caught(error) == ErrorResponse(id, CaughtCode(error), CaughtMessage(error))
    IN  CASE route.to = "return" -> ResultResponse(id, route.result)
          [] route.to = "throw" -> caught(route.error)
          [] route.to = "price" ->
                IF result.price # Undefined
                THEN ResultResponse(id, PriceText(route.tokenId, result.price))
                ELSE caught([code |-> Num(InternalError),
                             message |-> OrElse(result.error, Str("Failed to get price."))])

----------------------------------------------------------------------------
(* Inputs *)
Ids == {Null, Num(7), Str("a")}

Request(jsonrpc, method, params, id) ==
    [t |-> "object", jsonrpc |-> jsonrpc, method |-> method, params |-> params, id |-> id]

CallParams(name, arguments) == [t |-> "object", name |-> name, arguments |-> arguments]

PriceArgs(tokenId) == [t |-> "object", token_id |-> tokenId]

ArgumentValues ==
    {Undefined, Null, EmptyArray}
    \cup {PriceArgs(x) : x \in {Undefined, Num(5), Str(""), Str("bitcoin")}}

ParamValues ==
    {Undefined, Num(5), EmptyArray}
    \cup {CallParams(x, Undefined) : x \in {Undefined, Num(5), Str("other_tool")}}
    \cup {CallParams(Str(ToolName), a) : a \in ArgumentValues}

PriceCall == CallParams(Str(ToolName), PriceArgs(Str("bitcoin")))

\* request bodies: well-formed envelopes of every method, and envelopes that fail
\* the basic validation
Requests ==
    {Request(Str("2.0"), Str("callTool"), p, i) : p \in ParamValues, i \in Ids}
    \cup {Request(Str("2.0"), m, Undefined, i) : m \in {Str("listTools"), Str("ping"), Num(5)},
                                                 i \in Ids}
    \cup {Request(j, Str("callTool"), PriceCall, i) : j \in {Undefined, Str("1.0")}, i \in Ids}
    \cup {Request(Str("2.0"), m, PriceCall, i) : m \in {Undefined, Str("")}, i \in Ids}
    \cup {Request(Str("2.0"), Str("callTool"), PriceCall, Undefined),
          Request(Undefined, Str("listTools"), Undefined, Undefined),
          [t |-> "object"]}

\* WebSocket frames: text that is not JSON, JSON that is not an object, and requests
Garbage == [t |-> "garbage"]
Frames == {Garbage, Null, Num(5), EmptyArray} \cup Requests

TokenIds == {Undefined, Null, Num(0), Num(5), Str(""), Str("bitcoin"), Str("ethereum")}

DateNow == [t |-> "timestamp"]

Streams == 1 .. MaxStreams
Sockets == 1 .. MaxSockets

\* the inputs of a "core" run
CoreRequests ==
    {Request(Str("2.0"), Str("callTool"), PriceCall, i) : i \in {Null, Num(7)}}
    \cup {Request(Str("2.0"), Str("listTools"), Undefined, Str("a")),
          Request(Undefined, Str("callTool"), PriceCall, Num(7))}

CoreOutcomes ==
    {o \in Outcomes :
        \/ o.kind = "response"
           /\ o.data = [t |-> "object", bitcoin |-> [t |-> "object", usd |-> Num(65000)]]
        \/ o.kind = "AxiosError" /\ o.data = Undefined}

RequestPool == IF inputs = "wide" THEN Requests ELSE CoreRequests
FramePool == IF inputs = "wide" THEN Frames ELSE CoreRequests \cup {Garbage}
OutcomePool == IF inputs = "wide" THEN Outcomes ELSE CoreOutcomes
StreamLimit == IF inputs = "wide" THEN 1 ELSE MaxStreams
SocketLimit == IF inputs = "wide" THEN 1 ELSE MaxSockets
InflightLimit == IF inputs = "wide" THEN 1 ELSE MaxInflight

\* a handler suspended on the upstream call
Suspended(request, startSlot, chan) ==
    [request |-> request, startSlot |-> startSlot, chan |-> chan]

NoLast ==
    [op |-> "none", request |-> Undefined, upstream |-> FALSE, priceResult |-> NoResult,
     response |-> Undefined, out |-> <<>>, startSlot |-> NoStream, relaySlot |-> NoStream,
     chan |-> 0, writable |-> FALSE, outcome |-> NoOutcome]

----------------------------------------------------------------------------
(* index.ts: the split POST/SSE server.  httpServer.close() on SIGINT stops *)
(* new connections only, so requests on connections already open are still *)
(* served while the process winds down.  The code that runs inside one     *)
(* handler is a function of the server's memory m = [active, clientId,     *)
(* ended, out]: the two module-level variables, the streams already ended, *)
(* and the outbound effects of this run, in order.                         *)
Memory == [active |-> activeSseResponse, clientId |-> activeSseClientId,
           ended |-> writableEnded, out |-> <<>>]

\* res.end()
End(m, res) ==
    [m EXCEPT !.ended = @ \cup {res}, !.out = Append(@, [ch |-> "end", stream |-> res])]

\* sendSseMessage without the writableEnded test
sendSseMessageIgnoresEnded(m, res, id, eventName, data) ==
    IF res # NoStream
    THEN [m EXCEPT !.out = Append(@, [ch |-> "sse", stream |-> res,
                                       id |-> OrElse(id, DateNow),
                                       event |-> eventName,
                                       data |-> JSONstringify(data)])]
    ELSE m

\* sendSseMessage(res, id, eventName, data)
sendSseMessage(m, res, id, eventName, data) ==
    IF res # NoStream /\ res \notin m.ended
    THEN [m EXCEPT !.out = Append(@, [ch |-> "sse", stream |-> res,
                                       id |-> OrElse(id, DateNow),
                                       event |-> eventName,
                                       data |-> JSONstringify(data)])]
    ELSE m

\* sendSseJsonResponse(res, response)
sendSseJsonResponse(m, res, response) ==
    sendSseMessage(m, res, response.id, "mcp_message", response)

\* app.get('/sse') storing the new stream before it closes "the previous one"
SseGetStoreFirst(m, res) ==
    LET m1 == [m EXCEPT !.active = res, !.clientId = Null,
                        !.out = Append(@, [ch |-> "store", stream |-> res])]
        m2 == IF m1.active # NoStream THEN End(m1, m1.active) ELSE m1
        m3 == [m2 EXCEPT !.out = Append(@, [ch |-> "writeHead", stream |-> res])]
    IN  sendSseMessage(m3, res, Null, "mcp_status", [status |-> Str("connected")])

\* app.get('/sse'), lines 171-192, serving the new stream res
SseGet(m, res) ==
    LET m1 == IF m.active # NoStream THEN End(m, m.active) ELSE m
        m2 == [m1 EXCEPT !.out = Append(@, [ch |-> "writeHead", stream |-> res])]
        m3 == sendSseMessage(m2, res, Null, "mcp_status", [status |-> Str("connected")])
    IN  [m3 EXCEPT !.active = res, !.clientId = Null,
                   !.out = Append(@, [ch |-> "store", stream |-> res])]

\* req.on('close') without the identity test
SseOnCloseUnconditional(m, res) == [m EXCEPT !.active = NoStream, !.clientId = Null]

\* req.on('close') of the stream res, lines 195-201
SseOnClose(m, res) ==
    IF m.active = res
    THEN [m EXCEPT !.active = NoStream, !.clientId = Null]
    ELSE m

\* the basic validation of line 213 (and part_000 line 175)
EnvelopeInvalid(request) ==
    Get(request, "jsonrpc") # Str("2.0") \/ ~Truthy(Get(request, "method"))

\* res.status(s).send/json(body)
HttpRespond(m, status, body) ==
    [m EXCEPT !.out = Append(@, [ch |-> "http", status |-> status, body |-> body])]

\* app.post('/messages') answering the POST with 500 when the handler's envelope
\* is an error
PostRelayStatusByOutcome(m, response) ==
    HttpRespond(sendSseJsonResponse(m, m.active, response),
                IF response.error # Undefined THEN 500 ELSE 202,
                [status |-> Str("Request received, response sent via SSE.")])

\* app.post('/messages'), lines 221-225: relay the response, acknowledge the POST
PostRelay(m, response) ==
    HttpRespond(sendSseJsonResponse(m, m.active, response),
                202, [status |-> Str("Request received, response sent via SSE.")])

\* app.post('/messages'), lines 227-245: the catch block
PostCatch(m, requestId, error) ==
    LET envelope == ErrorResponse(requestId, CaughtCode(error), CaughtMessage(error))
        m1 == HttpRespond(m, 500, JSONstringify(envelope))
    IN  IF m1.active # NoStream
        THEN sendSseJsonResponse(m1, m1.active, envelope)
        ELSE m1

\* process.on('SIGINT'), lines 267-271
SigintSplit(m) == IF m.active # NoStream THEN End(m, m.active) ELSE m

Commit(m) ==
    /\ activeSseResponse' = m.active
    /\ activeSseClientId' = m.clientId
    /\ writableEnded' = m.ended

Writable(m) == m.active # NoStream /\ m.active \notin m.ended

GetSse ==
    /\ variant = "split"
    /\ nOpened < StreamLimit
    /\ LET res == nOpened + 1
           m == SseGet(Memory, res)
       IN  /\ Commit(m)
           /\ nOpened' = res
           /\ last' = [NoLast EXCEPT !.op = "GetSse", !.chan = res, !.out = m.out,
                                     !.startSlot = activeSseResponse]
    /\ UNCHANGED <<variant, inputs, closeFired, readyState, inflight, shuttingDown>>

SseClose(res) ==
    /\ variant = "split"
    /\ res \in 1 .. nOpened /\ res \notin closeFired
    /\ LET m == SseOnClose(Memory, res)
       IN  /\ Commit(m)
           /\ last' = [NoLast EXCEPT !.op = "SseClose", !.chan = res, !.out = m.out,
                                     !.startSlot = activeSseResponse]
    /\ closeFired' = closeFired \cup {res}
    /\ UNCHANGED <<variant, inputs, nOpened, readyState, inflight, shuttingDown>>

\* POST /messages with a body that fails the validation: the handler ends in its catch
PostRejected(body) ==
    /\ variant = "split"
    /\ EnvelopeInvalid(body)
    /\ LET m == PostCatch(Memory, Get(body, "id"),
                          Thrown(InvalidRequest, "Invalid JSON-RPC request structure"))
       IN  /\ Commit(m)
           /\ last' = [NoLast EXCEPT !.op = "Post", !.request = body, !.out = m.out,
                                     !.startSlot = activeSseResponse,
                                     !.relaySlot = activeSseResponse,
                                     !.writable = Writable(Memory)]
    /\ UNCHANGED <<variant, inputs, nOpened, closeFired, readyState, inflight, shuttingDown>>

\* POST /messages that the handler answers without an upstream call
PostImmediate(body) ==
    /\ variant = "split"
    /\ ~EnvelopeInvalid(body)
    /\ ~ViaPostCallsUpstream(body)
    /\ LET response == handleMcpRequestViaPost(body, NoOutcome)
           m == PostRelay(Memory, response)
       IN  /\ Commit(m)
           /\ last' = [NoLast EXCEPT !.op = "Post", !.request = body, !.out = m.out,
                                     !.response = response,
                                     !.priceResult = ViaPostPriceResult(body, NoOutcome),
                                     !.startSlot = activeSseResponse,
                                     !.relaySlot = activeSseResponse,
                                     !.writable = Writable(Memory)]
    /\ UNCHANGED <<variant, inputs, nOpened, closeFired, readyState, inflight, shuttingDown>>

\* POST /messages up to the suspension on axiosInstance.get
PostStart(body) ==
    /\ variant = "split"
    /\ ~EnvelopeInvalid(body)
    /\ ViaPostCallsUpstream(body)
    /\ BagCardinality(inflight) < InflightLimit
    /\ inflight' = inflight (+) SetToBag({Suspended(body, activeSseResponse, 0)})
    /\ last' = [NoLast EXCEPT !.op = "PostStart", !.request = body, !.upstream = TRUE,
                              !.startSlot = activeSseResponse]
    /\ UNCHANGED <<variant, inputs, activeSseResponse, activeSseClientId, nOpened, writableEnded,
                   closeFired, readyState, shuttingDown>>

\* the upstream call of the suspended handler h settles and h runs to its end
PostSettle(h, outcome) ==
    /\ variant = "split"
    /\ BagIn(h, inflight)
    /\ LET body == h.request
           response == handleMcpRequestViaPost(body, outcome)
           m == PostRelay(Memory, response)
       IN  /\ Commit(m)
           /\ last' = [NoLast EXCEPT !.op = "Post", !.request = body, !.out = m.out,
                                     !.response = response, !.upstream = TRUE,
                                     !.priceResult = ViaPostPriceResult(body, outcome),
                                     !.outcome = outcome,
                                     !.startSlot = h.startSlot,
                                     !.relaySlot = activeSseResponse,
                                     !.writable = Writable(Memory)]
    /\ inflight' = inflight (-) SetToBag({h})
    /\ UNCHANGED <<variant, inputs, nOpened, closeFired, readyState, shuttingDown>>

Sigint ==
    /\ ~shuttingDown
    /\ variant \in {"split", "ws"}
    /\ shuttingDown' = TRUE
    /\ LET m == IF variant = "split" THEN SigintSplit(Memory) ELSE Memory
       IN  /\ Commit(m)
           /\ last' = [NoLast EXCEPT !.op = "Sigint", !.out = m.out,
                                     !.startSlot = activeSseResponse]
    /\ UNCHANGED <<variant, inputs, nOpened, closeFired, readyState, inflight>>

----------------------------------------------------------------------------
(* part_000: the WebSocket server *)

\* JSON.parse(data.toString())
JSONparse(data) ==
    IF data = Garbage
    THEN [ok |-> FALSE, value |-> Undefined,
          error |-> NativeError("Unexpected token in JSON")]
    ELSE [ok |-> TRUE, value |-> data, error |-> Undefined]

\* ws.on('message'), lines 169-177: parse, capture the id, validate.  Yields the
\* request to handle, or the error thrown and the requestId held at that point.
WsPrefix(data) ==
    LET parsed == JSONparse(data)
        request == parsed.value
    IN  IF ~parsed.ok
        THEN [thrown |-> TRUE, requestId |-> Null, error |-> parsed.error,
              request |-> Undefined]
        ELSE IF request = Null
        THEN [thrown |-> TRUE, requestId |-> Null,
              error |-> NativeError("Cannot read properties of null (reading 'id')"),
              request |-> request]
        ELSE IF EnvelopeInvalid(request)
        THEN [thrown |-> TRUE, requestId |-> Get(request, "id"),
              error |-> Thrown(InvalidRequest, "Invalid JSON-RPC request structure"),
              request |-> request]
        ELSE [thrown |-> FALSE, requestId |-> Get(request, "id"), error |-> Undefined,
              request |-> request]

\* ws.send without the readyState test
WsSendUnchecked(out, sock, response) ==
    Append(out, [ch |-> "ws", sock |-> sock, data |-> JSONstringify(response)])

\* if (ws.readyState === WebSocket.OPEN) ws.send(JSON.stringify(response))
WsSend(out, sock, response) ==
    IF readyState[sock] = "OPEN"
    THEN Append(out, [ch |-> "ws", sock |-> sock, data |-> JSONstringify(response)])
    ELSE out

\* ws.on('message'), lines 188-201: the catch block
WsCatch(out, sock, requestId, error) ==
    WsSend(out, sock, ErrorResponse(requestId, CaughtCode(error), CaughtMessage(error)))

WsConnect(sock) ==
    /\ variant = "ws" /\ ~shuttingDown
    /\ sock <= SocketLimit
    /\ readyState[sock] = "CONNECTING"
    /\ readyState' = [readyState EXCEPT ![sock] = "OPEN"]
    /\ last' = [NoLast EXCEPT !.op = "WsConnect", !.chan = sock]
    /\ UNCHANGED <<variant, inputs, activeSseResponse, activeSseClientId, nOpened, writableEnded,
                   closeFired, inflight, shuttingDown>>

WsClose(sock) ==
    /\ variant = "ws"
    /\ readyState[sock] = "OPEN"
    /\ readyState' = [readyState EXCEPT ![sock] = "CLOSED"]
    /\ last' = [NoLast EXCEPT !.op = "WsClose", !.chan = sock]
    /\ UNCHANGED <<variant, inputs, activeSseResponse, activeSseClientId, nOpened, writableEnded,
                   closeFired, inflight, shuttingDown>>

\* a frame the handler rejects before handleMcpRequest
WsRejected(sock, data) ==
    /\ variant = "ws"
    /\ readyState[sock] = "OPEN"
    /\ WsPrefix(data).thrown
    /\ LET pre == WsPrefix(data)
       IN  last' = [NoLast EXCEPT !.op = "WsMessage", !.chan = sock, !.request = data,
                                  !.out = WsCatch(<<>>, sock, pre.requestId, pre.error),
                                  !.writable = TRUE]
    /\ UNCHANGED <<variant, inputs, activeSseResponse, activeSseClientId, nOpened, writableEnded,
                   closeFired, readyState, inflight, shuttingDown>>

\* a request answered without an upstream call
WsImmediate(sock, data) ==
    /\ variant = "ws"
    /\ readyState[sock] = "OPEN"
    /\ ~WsPrefix(data).thrown
    /\ ~WsCallsUpstream(WsPrefix(data).request)
    /\ LET request == WsPrefix(data).request
           response == handleMcpRequest(request, NoOutcome)
       IN  last' = [NoLast EXCEPT !.op = "WsMessage", !.chan = sock, !.request = data,
                                  !.response = response,
                                  !.priceResult = WsPriceResult(request, NoOutcome),
                                  !.out = WsSend(<<>>, sock, response),
                                  !.writable = TRUE]
    /\ UNCHANGED <<variant, inputs, activeSseResponse, activeSseClientId, nOpened, writableEnded,
                   closeFired, readyState, inflight, shuttingDown>>

\* a request up to the suspension on axiosInstance.get
WsStart(sock, data) ==
    /\ variant = "ws"
    /\ readyState[sock] = "OPEN"
    /\ ~WsPrefix(data).thrown
    /\ WsCallsUpstream(WsPrefix(data).request)
    /\ BagCardinality(inflight) < InflightLimit
    /\ inflight' = inflight (+) SetToBag({Suspended(WsPrefix(data).request, NoStream, sock)})
    /\ last' = [NoLast EXCEPT !.op = "WsStart", !.chan = sock, !.request = data,
                              !.upstream = TRUE]
    /\ UNCHANGED <<variant, inputs, activeSseResponse, activeSseClientId, nOpened, writableEnded,
                   closeFired, readyState, shuttingDown>>

\* the upstream call of the suspended handler h settles and h runs to its end
WsSettle(h, outcome) ==
    /\ variant = "ws"
    /\ BagIn(h, inflight)
    /\ LET request == h.request
           sock == h.chan
           response == handleMcpRequest(request, outcome)
       IN  last' = [NoLast EXCEPT !.op = "WsMessage", !.chan = sock, !.request = request,
                                  !.response = response, !.upstream = TRUE,
                                  !.priceResult = WsPriceResult(request, outcome),
                                  !.outcome = outcome,
                                  !.out = WsSend(<<>>, sock, response),
                                  !.writable = (readyState[sock] = "OPEN")]
    /\ inflight' = inflight (-) SetToBag({h})
    /\ UNCHANGED <<variant, inputs, activeSseResponse, activeSseClientId, nOpened, writableEnded,
                   closeFired, readyState, shuttingDown>>

----------------------------------------------------------------------------
(* getCoinGeckoPrice called on its own *)
DirectCall(tokenId, outcome) ==
    /\ variant = "direct"
    /\ LET called == ~getCoinGeckoPriceRejects(tokenId)
       IN  /\ called \/ outcome = NoOutcome
           /\ ~called \/ outcome # NoOutcome
           /\ last' = [NoLast EXCEPT !.op = "Direct", !.request = tokenId,
                                     !.upstream = called, !.outcome = outcome,
                                     !.priceResult = getCoinGeckoPrice(tokenId, outcome)]
    /\ UNCHANGED <<variant, inputs, activeSseResponse, activeSseClientId, nOpened, writableEnded,
                   closeFired, readyState, inflight, shuttingDown>>

----------------------------------------------------------------------------
Init ==
    /\ variant \in {"split", "ws", "direct"}
    /\ inputs \in {"wide", "core"}
    /\ variant = "direct" => inputs = "wide"
    /\ activeSseResponse = NoStream
    /\ activeSseClientId = Null
    /\ nOpened = 0
    /\ writableEnded = {}
    /\ closeFired = {}
    /\ readyState = [k \in Sockets |-> "CONNECTING"]
    /\ inflight = EmptyBag
    /\ shuttingDown = FALSE
    /\ last = NoLast

Next ==
    \/ GetSse
    \/ \E res \in Streams : SseClose(res)
    \/ \E body \in RequestPool : PostRejected(body)
    \/ \E body \in RequestPool : PostImmediate(body)
    \/ \E body \in RequestPool : PostStart(body)
    \/ \E h \in BagToSet(inflight), outcome \in OutcomePool : PostSettle(h, outcome)
    \/ Sigint
    \/ \E sock \in Sockets : WsConnect(sock)
    \/ \E sock \in Sockets : WsClose(sock)
    \/ \E sock \in Sockets, data \in FramePool : WsRejected(sock, data)
    \/ \E sock \in Sockets, data \in FramePool : WsImmediate(sock, data)
    \/ \E sock \in Sockets, data \in FramePool : WsStart(sock, data)
    \/ \E h \in BagToSet(inflight), outcome \in OutcomePool : WsSettle(h, outcome)
    \/ \E tokenId \in TokenIds, outcome \in Outcomes \cup {NoOutcome} :
          DirectCall(tokenId, outcome)

Spec == Init /\ [][Next]_vars

----------------------------------------------------------------------------
(* What a finished handler run sent, read off its effects *)

\* the mcp_message events written to streams
SseMessages(out) == SelectSeq(out, LAMBDA e : e.ch = "sse" /\ e.event = "mcp_message")

\* the WebSocket frames sent
WsFrames(out) == SelectSeq(out, LAMBDA e : e.ch = "ws")

\* the responses to the POST itself
HttpResponses(out) == SelectSeq(out, LAMBDA e : e.ch = "http")

\* every JSON-RPC envelope that left the server, wherever it went
Envelopes(out) ==
    [i \in 1 .. Len(SseMessages(out)) |-> SseMessages(out)[i].data]
    \o [i \in 1 .. Len(WsFrames(out)) |-> WsFrames(out)[i].data]
    \o [i \in 1 .. Len(SelectSeq(out, LAMBDA e : e.ch = "http" /\ e.status # 202)) |->
            SelectSeq(out, LAMBDA e : e.ch = "http" /\ e.status # 202)[i].body]

\* the envelopes that reached the caller's channel: the stream, or the socket
Delivered(out) ==
    [i \in 1 .. Len(SseMessages(out)) |-> SseMessages(out)[i].data]
    \o [i \in 1 .. Len(WsFrames(out)) |-> WsFrames(out)[i].data]

Finished == last.op \in {"Post", "WsMessage"}

\* the run handled a request that passed the envelope validation
Handled == Finished /\ last.response # Undefined

IsCallTool(request) == ~EnvelopeInvalid(request) /\ Get(request, "method") = Str("callTool")

NameOf(request) ==
    IF Truthy(Get(request, "params")) THEN Get(Get(request, "params"), "name") ELSE Undefined

ArgumentsOf(request) ==
    IF Truthy(Get(request, "params")) THEN Get(Get(request, "params"), "arguments")
    ELSE Undefined

TokenOf(request) ==
    IF Truthy(ArgumentsOf(request)) THEN Get(ArgumentsOf(request), "token_id") ELSE Undefined

\* a callTool request for the price tool that carries a token id string
IsPriceQuery(request) ==
    /\ IsCallTool(request)
    /\ NameOf(request) = Str(ToolName)
    /\ TypeOf(TokenOf(request)) = "string"

ErrorCodeOf(response) == IF response.error = Undefined THEN 0 ELSE response.error.code

ErrorMessageOf(response) == IF response.error = Undefined THEN "" ELSE response.error.message

----------------------------------------------------------------------------
(* C1: in the split server the slot holds no stream older than the most    *)
(* recently opened one, every stream that is no longer in the slot has     *)
(* been ended or has disconnected, and a GET /sse that finds a stream in   *)
(* the slot ends that stream before it stores the new one.                 *)
C1_SlotEvictsPrevious ==
    variant = "split" =>
        /\ activeSseResponse \in {NoStream, nOpened}
        /\ \A s \in 1 .. nOpened :
              s # activeSseResponse => s \in writableEnded \cup closeFired
        /\ (last.op = "GetSse" /\ last.startSlot # NoStream) =>
              /\ last.startSlot \in writableEnded
              /\ activeSseResponse = last.chan
              /\ \E i, j \in 1 .. Len(last.out) :
                    /\ i < j
                    /\ last.out[i] = [ch |-> "end", stream |-> last.startSlot]
                    /\ last.out[j] = [ch |-> "store", stream |-> last.chan]

C1_Witness ==
    /\ variant = "split"
    /\ last.op = "GetSse"
    /\ last.startSlot # NoStream
    /\ last.startSlot \notin closeFired
    /\ activeSseResponse = nOpened

(* C2: the 'close' handler of a stream clears the slot exactly when the    *)
(* slot still refers to that stream; a late 'close' of a replaced stream   *)
(* leaves the slot as it was.                                              *)
C2_CloseClearsOnlyOwnStream ==
    [][\A res \in Streams :
          (res \notin closeFired /\ closeFired' = closeFired \cup {res}) =>
              activeSseResponse' =
                  IF activeSseResponse = res THEN NoStream ELSE activeSseResponse]_vars

C2_Witness ==
    /\ last.op = "SseClose"
    /\ last.startSlot # NoStream
    /\ last.startSlot # last.chan
    /\ activeSseResponse = last.startSlot

(* C3 as stated: every price query yields one price result, and exactly    *)
(* one envelope carrying it reaches the caller before the handling ends.   *)
C3_ExactlyOneEnvelope ==
    (Finished /\ IsPriceQuery(last.request)) =>
        /\ last.priceResult # NoResult
        /\ Len(Delivered(last.out)) = 1

(* C3 as amended: every price query yields one price result, carried by    *)
(* the handler's envelope; that envelope reaches the caller once when the  *)
(* channel is writable at relay time (the socket is OPEN; the slot holds a *)
(* stream that was not ended) and is dropped otherwise, never sent twice.  *)
C3_AtMostOneEnvelope ==
    (Finished /\ IsPriceQuery(last.request)) =>
        /\ last.priceResult # NoResult
        /\ last.priceResult.price # Undefined =>
              last.response.result = PriceText(TokenOf(last.request), last.priceResult.price)
        /\ last.priceResult.price = Undefined =>
              /\ ErrorCodeOf(last.response) = InternalError
              /\ ErrorMessageOf(last.response) = last.priceResult.error.v
        /\ Delivered(last.out) =
              IF last.writable THEN <<JSONstringify(last.response)>> ELSE <<>>

C3_Witness ==
    /\ Finished
    /\ IsPriceQuery(last.request)
    /\ last.upstream
    /\ ~last.writable
    /\ Delivered(last.out) = <<>>

(* C4: every envelope that leaves either server for a request that has an  *)
(* id carries exactly that id, null included, also while other requests    *)
(* with other ids are suspended on the upstream call.                      *)
C4_IdRoundTrips ==
    (Finished /\ Get(last.request, "id") # Undefined) =>
        \A i \in 1 .. Len(Envelopes(last.out)) :
            /\ "id" \in DOMAIN Envelopes(last.out)[i]
            /\ Envelopes(last.out)[i].id = Get(last.request, "id")

C4_Witness ==
    /\ Finished
    /\ last.upstream
    /\ Get(last.request, "id") = Num(7)
    /\ Len(Delivered(last.out)) = 1
    /\ Delivered(last.out)[1].id = Num(7)
    /\ \E h \in BagToSet(inflight) : Get(h.request, "id") = Null

(* C5: POST /messages answers 202 for every body that passes the envelope  *)
(* validation, whatever the slot holds and whatever the handler produced;  *)
(* for a body that fails it, it answers an error status with the           *)
(* InvalidRequest envelope as the body, and writes that envelope to the    *)
(* active stream exactly when there is one.                                *)
C5_PostStatus ==
    last.op = "Post" =>
        /\ Len(HttpResponses(last.out)) = 1
        /\ ~EnvelopeInvalid(last.request) =>
              HttpResponses(last.out)[1].status = 202
        /\ EnvelopeInvalid(last.request) =>
              LET envelope == JSONstringify(ErrorResponse(Get(last.request, "id"),
                                  InvalidRequest, "Invalid JSON-RPC request structure"))
              IN  /\ HttpResponses(last.out)[1].status >= 400
                  /\ HttpResponses(last.out)[1].body = envelope
                  /\ HttpResponses(last.out)[1].body.error.code = InvalidRequest
                  /\ SseMessages(last.out) =
                        IF last.writable
                        THEN <<[ch |-> "sse", stream |-> last.relaySlot,
                                id |-> OrElse(Get(last.request, "id"), DateNow),
                                event |-> "mcp_message", data |-> envelope]>>
                        ELSE <<>>

C5_Witness ==
    /\ last.op = "Post"
    /\ ~EnvelopeInvalid(last.request)
    /\ last.response.error # Undefined
    /\ last.relaySlot = NoStream
    /\ HttpResponses(last.out)[1].status = 202

(* C6 as stated: when the stream that was active as a POST started was     *)
(* cleared or replaced before the relay, no mcp_message event of that      *)
(* request is written to any stream.                                       *)
C6_StaleRelayWritesNothing ==
    (last.op = "Post" /\ last.upstream /\ last.startSlot # NoStream
        /\ last.relaySlot # last.startSlot) =>
        SseMessages(last.out) = <<>>

(* C6 as amended: when the stream that was active as a POST started was    *)
(* cleared or replaced before the relay, nothing is written to that        *)
(* stream; if the slot is empty (or holds an ended stream) nothing is      *)
(* written at all, and if a newer stream replaced it the event is written  *)
(* once, to the newer stream.                                              *)
C6_StaleRelayGoesToCurrentSlot ==
    (last.op = "Post" /\ last.upstream /\ last.startSlot # NoStream
        /\ last.relaySlot # last.startSlot) =>
        /\ \A i \in 1 .. Len(SseMessages(last.out)) :
              SseMessages(last.out)[i].stream # last.startSlot
        /\ last.relaySlot = NoStream => SseMessages(last.out) = <<>>
        /\ ~last.writable => SseMessages(last.out) = <<>>
        /\ last.writable =>
              /\ Len(SseMessages(last.out)) = 1
              /\ SseMessages(last.out)[1].stream = last.relaySlot
              /\ SseMessages(last.out)[1].data = JSONstringify(last.response)

C6_Witness ==
    /\ last.op = "Post"
    /\ last.upstream
    /\ last.startSlot # NoStream
    /\ last.relaySlot \notin {NoStream, last.startSlot}
    /\ Len(SseMessages(last.out)) = 1

(* C7 as stated: a callTool whose params.name is anything but the price    *)
(* tool's name, a missing or non-string name included, is answered with    *)
(* MethodNotFound and makes no upstream call.                              *)
C7_AnyOtherNameIsMethodNotFound ==
    (Handled /\ IsCallTool(last.request) /\ NameOf(last.request) # Str(ToolName)) =>
        /\ ErrorCodeOf(last.response) = MethodNotFound
        /\ ~last.upstream

(* C7 as amended: a callTool whose params.name is a string other than the  *)
(* price tool's name is answered with MethodNotFound; one whose name is    *)
(* missing or not a string (or whose params is not an object) is answered  *)
(* with InvalidParams; neither makes an upstream call.                     *)
C7_OtherNameByKind ==
    (Handled /\ IsCallTool(last.request) /\ NameOf(last.request) # Str(ToolName)) =>
        /\ ErrorCodeOf(last.response) =
              IF TypeOf(NameOf(last.request)) = "string" THEN MethodNotFound
              ELSE InvalidParams
        /\ ~last.upstream
        /\ last.priceResult = NoResult

C7_Witness ==
    /\ Handled
    /\ IsCallTool(last.request)
    /\ NameOf(last.request) = Str("other_tool")
    /\ ErrorCodeOf(last.response) = MethodNotFound
    /\ Len(Delivered(last.out)) = 1

(* C8: the WebSocket server answers every frame that is not JSON, or that  *)
(* lacks the "2.0" tag or a method, without handling it, with one error    *)
(* envelope whose code is ParseError or InvalidRequest and whose id is the *)
(* request's id when it can be recovered and null otherwise.               *)
C8_RejectedFramesCode ==
    (last.op = "WsMessage" /\ last.response = Undefined) =>
        /\ Len(WsFrames(last.out)) = 1
        /\ WsFrames(last.out)[1].data.error.code \in {ParseError, InvalidRequest}
        /\ "id" \in DOMAIN WsFrames(last.out)[1].data
        /\ WsFrames(last.out)[1].data.id = OrElse(Get(last.request, "id"), Null)

(* C9 as stated: a token id that is empty or not a string makes no         *)
(* upstream call and yields the "Invalid or missing token_id" error, for   *)
(* getCoinGeckoPrice called directly and for a callTool routed through the *)
(* handler.                                                                *)
C9_InvalidTokenMessage ==
    /\ (last.op = "Direct" /\ (last.request = Str("") \/ TypeOf(last.request) # "string")) =>
          /\ ~last.upstream
          /\ last.priceResult = InvalidTokenResult
    /\ (Handled /\ IsCallTool(last.request) /\ NameOf(last.request) = Str(ToolName)
            /\ (TokenOf(last.request) = Str("") \/ TypeOf(TokenOf(last.request)) # "string")) =>
          /\ ~last.upstream
          /\ ErrorMessageOf(last.response) = "Invalid or missing token_id parameter."

(* C9 as amended: a token id that is empty or not a string makes no        *)
(* upstream call.  getCoinGeckoPrice called directly returns the "Invalid  *)
(* or missing token_id parameter." error; a callTool with an empty token   *)
(* id is answered with that message under InternalError; a callTool whose  *)
(* token id is missing or not a string never reaches getCoinGeckoPrice and *)
(* is answered with InvalidParams and the "Invalid arguments" message.     *)
C9_InvalidTokenByRoute ==
    /\ (last.op = "Direct" /\ (last.request = Str("") \/ TypeOf(last.request) # "string")) =>
          /\ ~last.upstream
          /\ last.priceResult = InvalidTokenResult
    /\ (Handled /\ IsCallTool(last.request) /\ NameOf(last.request) = Str(ToolName)
            /\ (TokenOf(last.request) = Str("") \/ TypeOf(TokenOf(last.request)) # "string")) =>
          /\ ~last.upstream
          /\ IF TokenOf(last.request) = Str("")
             THEN /\ last.priceResult = InvalidTokenResult
                  /\ ErrorCodeOf(last.response) = InternalError
                  /\ ErrorMessageOf(last.response) = "Invalid or missing token_id parameter."
             ELSE /\ last.priceResult = NoResult
                  /\ ErrorCodeOf(last.response) = InvalidParams
                  /\ ErrorMessageOf(last.response) =
                        "Invalid arguments for get_coingecko_price: requires a \"token_id\" string."

C9_Witness ==
    /\ Handled
    /\ IsCallTool(last.request)
    /\ NameOf(last.request) = Str(ToolName)
    /\ TokenOf(last.request) = Num(5)
    /\ ErrorCodeOf(last.response) = InvalidParams

(* C10: for a non-empty token id and a successful upstream response whose  *)
(* body holds a numeric body[tokenId].usd = N, 0 included,                 *)
(* getCoinGeckoPrice returns {price: N} and no error.                      *)
C10_NumericPriceReturned ==
    (last.op = "Direct" /\ TypeOf(last.request) = "string" /\ last.request # Str("")
        /\ last.outcome.kind = "response"
        /\ TypeOf(Get(Get(last.outcome.data, last.request.v), "usd")) = "number") =>
        last.priceResult = [price |-> Get(Get(last.outcome.data, last.request.v), "usd"),
                            error |-> Undefined]

====
